---- MODULE Spec2Model ----
(***************************************************************************)
(* A model of dipy/reconst/shm.py: spherical harmonic index enumeration,   *)
(* the three real-harmonic conventions, signal normalisation, model        *)
(* fitting with a mask, ODF sampling through the sampling-matrix cache,    *)
(* the residual bootstrap and the generic SF <-> SH transforms.            *)
(*                                                                         *)
(* The module targets Python 2 (integer "/" at shm.py:213 and :624).       *)
(* Floating point values are modelled as extended rationals <<num, den>>:  *)
(* den > 0 is the finite value num/den in lowest terms, <<1,0>> is +inf,   *)
(* <<-1,0>> is -inf and <<0,0>> is NaN.  Rounding is not modelled.         *)
(***************************************************************************)
EXTENDS Integers, Sequences, FiniteSets, TLC

VARIABLES
    call,            \* the function or method being called, with its arguments
    ret,             \* what that call returned (or that it raised)
    signal_object,   \* the signal source a ResidualBootstrapWrapper wraps
    wrapper,         \* the fields of the ResidualBootstrapWrapper
    model,           \* the fields of the SphHarmModel
    cache,           \* the model's cache: (tag, key) -> value
    fits,            \* the SphHarmFit the caller holds: a sequence of at most one
    builds           \* per sphere, how often odf has evaluated its sampling matrix

vars == <<call, ret, signal_object, wrapper, model, cache, fits, builds>>

\* the model, its cache and the fits made from it
modelobjects == <<model, cache, fits, builds>>

\* the objects the module-level functions neither read nor write
objects == <<signal_object, wrapper, model, cache, fits, builds>>

(***************************************************************************)
(* Bounds of the model.                                                    *)
(***************************************************************************)
MaxHalfOrder == 3        \* sh_order ranges up to 2*MaxHalfOrder + 1
MaxNegHalfOrder == 2     \* and down to -(2*MaxNegHalfOrder + 1)

(***************************************************************************)
(* Small helpers on sequences.                                             *)
(***************************************************************************)
Abs(x) == IF x < 0 THEN -x ELSE x

RECURSIVE Range(_, _)
\* np.arange(lo, hi): the integers lo, lo+1, ..., hi-1 as a sequence
Range(lo, hi) == IF lo >= hi THEN <<>> ELSE <<lo>> \o Range(lo + 1, hi)

RECURSIVE Flatten(_)
Flatten(ss) == IF ss = <<>> THEN <<>> ELSE Head(ss) \o Flatten(Tail(ss))

\* the value Python's None
None == "<None>"

\* what np.empty leaves in a cell nothing has written
Uninit == {0, 7}

\* no call is in progress: the caller may make one
Idle == call.op = None

\* the caller takes the result; the functions keep no state between calls
Return ==
    /\ ~Idle
    /\ call' = [op |-> None]
    /\ ret' = [raised |-> None]
    /\ UNCHANGED objects

(***************************************************************************)
(* sph_harm_ind_list (shm.py:184-221)                                      *)
(***************************************************************************)
\* np.arange(0, sh_order+1, 2)
n_range(sh_order) ==
    [i \in 1..(IF sh_order + 1 <= 0 THEN 0 ELSE (sh_order + 2) \div 2) |-> 2 * (i - 1)]

\* np.repeat(n_range, n_range*2+1)
n_list_of(sh_order) ==
    Flatten([i \in 1..Len(n_range(sh_order)) |->
                [j \in 1..(2 * n_range(sh_order)[i] + 1) |-> n_range(sh_order)[i]]])

\* (sh_order + 2)*(sh_order + 1)/2 on Python 2 integers
ncoef_of(sh_order) == ((sh_order + 2) * (sh_order + 1)) \div 2

\* the loop writing arange(-ii, ii) per degree: one cell short
m_written_short(sh_order) ==
    Flatten([i \in 1..Len(n_range(sh_order)) |->
                Range(-n_range(sh_order)[i], n_range(sh_order)[i])])

\* the cells the loop at 216-218 writes, in order: arange(-ii, ii+1) per degree
m_written(sh_order) ==
    Flatten([i \in 1..Len(n_range(sh_order)) |->
                Range(-n_range(sh_order)[i], n_range(sh_order)[i] + 1)])

IndListRaises(sh_order) == sh_order % 2 # 0

SphHarmIndList ==
    /\ Idle
    /\ UNCHANGED objects
    /\ \E sh_order \in -(2 * MaxNegHalfOrder + 1)..(2 * MaxHalfOrder + 1) :
        /\ call' = [op |-> "sph_harm_ind_list", sh_order |-> sh_order]
        /\ IF IndListRaises(sh_order)
           THEN ret' = [raised |-> "ValueError"]
           ELSE \E tail \in [1..(ncoef_of(sh_order) - Len(m_written(sh_order))) -> Uninit] :
                    ret' = [raised |-> None,
                            m_list |-> m_written(sh_order) \o tail,
                            n_list |-> n_list_of(sh_order)]

(***************************************************************************)
(* The complex harmonic evaluator scipy.special.sph_harm is a library      *)
(* call (shm.py:82, :124, :171-172).  Angles are points of a small grid    *)
(* and the value is a complex number <<re, im>> with integer parts.  The   *)
(* stand-in keeps what the callers rely on: the value is a function of     *)
(* (m, n, theta, phi), it is real for m = 0, and                           *)
(* Y(-m) = (-1)^m * conj(Y(m)).                                            *)
(***************************************************************************)
MaxAngle == 2            \* angles are grid points 0..MaxAngle
MaxDegree == 2           \* degrees passed to the basis functions directly
MaxLen == 2              \* length of the order/degree arrays passed directly

Angles == 0..MaxAngle

\* (-1)^e for an integer e
SignPow(e) == IF e % 2 = 0 THEN 1 ELSE -1

sph_harm_pos(m, n, theta, phi) ==
    <<((n + m + theta + 2 * phi) % 5) - 2,
      m * (((theta + 1) % 3) - 1) * (1 + (phi % 2))>>

sph_harm(m, n, theta, phi) ==
    IF m >= 0
    THEN sph_harm_pos(m, n, theta, phi)
    ELSE <<SignPow(m) * sph_harm_pos(-m, n, theta, phi)[1],
           -SignPow(m) * sph_harm_pos(-m, n, theta, phi)[2]>>

Re(z) == z[1]
Im(z) == z[2]

(***************************************************************************)
(* The three real-harmonic conventions.  A real value a + b*sqrt(2) is the *)
(* pair <<a, b>>.  Each function is elementwise over the broadcast of the  *)
(* order/degree arrays (one column each) against the angle arrays (one row *)
(* each), so the result is a matrix with one row per point.                *)
(***************************************************************************)
\* real_sph_harm (shm.py:46-87), one element
real_sph_harm_at(m, n, theta, phi) ==
    IF m = 0 THEN <<Re(sph_harm(m, n, theta, phi)), 0>>
    ELSE IF m > 0 THEN <<0, Re(sph_harm(m, n, theta, phi))>>
    ELSE <<0, Im(sph_harm(m, n, theta, phi))>>

\* np.ones(shape) ** e: one, whatever the exponent
OnesPow(e) == 1

\* neg_ones = -1*np.ones(sh.shape)**(m+1) (shm.py:126): ** binds before *
neg_ones(m) == -1 * OnesPow(m + 1)

\* real_sph_harm_mrtrix (shm.py:90-132), one element
real_sph_harm_mrtrix_at(m, n, theta, phi) ==
    IF m = 0 THEN <<Re(sph_harm(m, n, theta, phi)), 0>>
    ELSE IF m > 0 THEN <<Re(sph_harm(m, n, theta, phi)), 0>>
    ELSE <<neg_ones(m) * Im(sph_harm(m, n, theta, phi)), 0>>

\* real_sph_harm_fibernav (shm.py:135-179), one element
real_sph_harm_fibernav_at(m, n, theta, phi) ==
    IF m = 0 THEN <<Re(sph_harm(m, n, theta, phi)), 0>>
    ELSE IF m > 0 THEN <<0, Im(sph_harm(m, n, theta, phi))>>
    ELSE <<0, Re(sph_harm(Abs(m), n, theta, phi))>>

\* the names of the three functions, as sph_harm_lookup's values (shm.py:182)
BasisAt(fn, m, n, theta, phi) ==
    CASE fn = "real_sph_harm" -> real_sph_harm_at(m, n, theta, phi)
      [] fn = "real_sph_harm_mrtrix" -> real_sph_harm_mrtrix_at(m, n, theta, phi)
      [] fn = "real_sph_harm_fibernav" -> real_sph_harm_fibernav_at(m, n, theta, phi)

\* fn(m, n, theta[:, None], phi[:, None]): rows are points, columns are (m, n)
BasisMatrix(fn, m, n, theta, phi) ==
    [p \in 1..Len(theta) |-> [k \in 1..Len(m) |-> BasisAt(fn, m[k], n[k], theta[p], phi[p])]]

\* the (order, degree) pairs a caller may pass: |m| <= n, n >= 0
OrderDegree == {md \in (-MaxDegree..MaxDegree) \X (0..MaxDegree) : Abs(md[1]) <= md[2]}

\* the point sets: one (theta, phi) pair of the grid per point
Points == Angles \X Angles

CallBasis(fn) ==
    /\ Idle
    /\ UNCHANGED objects
    /\ \E len \in 1..MaxLen :
        \E mn \in [1..len -> OrderDegree], pt \in Points :
            /\ call' = [op |-> fn,
                        m |-> [k \in 1..len |-> mn[k][1]],
                        n |-> [k \in 1..len |-> mn[k][2]],
                        theta |-> <<pt[1]>>, phi |-> <<pt[2]>>]
            /\ ret' = [raised |-> None,
                       real_sh |-> BasisMatrix(fn, call'.m, call'.n, call'.theta, call'.phi)]

RealSphHarm == CallBasis("real_sph_harm")
RealSphHarmMrtrix == CallBasis("real_sph_harm_mrtrix")
RealSphHarmFibernav == CallBasis("real_sph_harm_fibernav")

(***************************************************************************)
(* Floating point values as extended rationals.                            *)
(***************************************************************************)
RECURSIVE Gcd(_, _)
Gcd(a, b) == IF b = 0 THEN a ELSE Gcd(b, a % b)

Sign(x) == IF x > 0 THEN 1 ELSE IF x < 0 THEN -1 ELSE 0

\* num/den in normal form; x/0 is +inf, -inf or NaN by the sign of x
Rat(num, den) ==
    IF den = 0 THEN <<Sign(num), 0>>
    ELSE LET g == Gcd(Abs(num), Abs(den))
         IN  <<(Sign(den) * num) \div g, Abs(den) \div g>>

Fin(x) == <<x, 1>>
NaN == <<0, 0>>
PInf == <<1, 0>>
NInf == <<-1, 0>>

IsFinite(x) == x[2] # 0
IsNaN(x) == x = NaN

FMul(x, y) == Rat(x[1] * y[1], x[2] * y[2])

FAdd(x, y) ==
    IF x[2] = 0 /\ y[2] = 0
    THEN (IF x = y THEN x ELSE NaN)
    ELSE Rat(x[1] * y[2] + y[1] * x[2], x[2] * y[2])

FNeg(x) == <<-x[1], x[2]>>
FSub(x, y) == FAdd(x, FNeg(y))

\* x / y, with x/0 = +-inf, 0/0 = NaN, x/inf = 0 and inf/inf = NaN
FDiv(x, y) == FMul(x, IF y[1] < 0 THEN <<-y[2], -y[1]>> ELSE <<y[2], y[1]>>)

\* x < y as floating point compares: false when either side is NaN
FLess(x, y) ==
    IF x[2] = 0 /\ y[2] = 0
    THEN x[1] < y[1] /\ ~IsNaN(x) /\ ~IsNaN(y)
    ELSE x[1] * y[2] < y[1] * x[2]

FLeq(x, y) == FLess(x, y) \/ (x = y /\ ~IsNaN(x))

\* ndarray.clip(lo): np.maximum(x, lo) keeps a NaN
ClipMin(x, lo) == IF FLess(x, lo) THEN lo ELSE x

\* a clip that applies the lower bound only
ClipLowerOnly(x, lo, hi, build) == ClipMin(x, lo)

\* ndarray.clip(lo, hi).  With lo > hi the result is the build's: numpy's
\* loop "x < lo -> lo, else x > hi -> hi" or minimum(maximum(x, lo), hi).
Clip(x, lo, hi, build) ==
    IF build = "loop"
    THEN (IF FLess(x, lo) THEN lo ELSE IF FLess(hi, x) THEN hi ELSE x)
    ELSE (IF FLess(hi, ClipMin(x, lo)) THEN hi ELSE ClipMin(x, lo))

ClipBuilds == {"loop", "minmax"}

RECURSIVE FSum(_)
\* the sum of a sequence of values, left to right
FSum(xs) == IF xs = <<>> THEN Fin(0) ELSE
            IF Len(xs) = 1 THEN xs[1] ELSE FAdd(FSum(SubSeq(xs, 1, Len(xs) - 1)), xs[Len(xs)])

\* np.dot(vec, M.T): entry j is the sum over k of vec[k] * M[j][k]
DotT(vec, M) == [j \in 1..Len(M) |-> FSum([k \in 1..Len(vec) |-> FMul(vec[k], M[j][k])])]

\* elementwise sum of two matrices of one shape
MatAdd(A, B) == [i \in 1..Len(A) |-> [k \in 1..Len(A[i]) |-> FAdd(A[i][k], B[i][k])]]

\* arr[index] for a sequence of 0-based positions
Take(arr, index) == [i \in 1..Len(index) |-> arr[index[i] + 1]]

(***************************************************************************)
(* bootstrap_data_array and bootstrap_data_voxel (shm.py:497-535)          *)
(***************************************************************************)
MaxDwi == 2              \* number of DWI samples (the size of H and R)

\* bootstrap_data_array with the permutation in hand (shm.py:519-523)
bootstrap_data_array(data, H, R, permute) ==
    DotT(data, MatAdd(H, Take(R, permute)))

\* the voxel path adding r without indexing it by the permutation
bootstrap_data_voxel_unpermuted(data, H, R, permute) ==
    LET r == DotT(data, R)
        boot_data == DotT(data, H)
    IN  [j \in 1..Len(boot_data) |-> FAdd(boot_data[j], r[j])]

\* bootstrap_data_voxel with the permutation in hand (shm.py:532-535)
bootstrap_data_voxel(data, H, R, permute) ==
    LET r == DotT(data, R)
        boot_data == DotT(data, H)
    IN  [j \in 1..Len(boot_data) |-> FAdd(boot_data[j], Take(r, permute)[j])]

\* randint(n, size=n), or an explicit sequence of n indices in 0..n-1
PermuteChoices(n) == [1..n -> 0..(n - 1)]

\* square matrices a*I + b*rowindex + c*colindex: a family with distinct,
\* asymmetric rows standing for the matrices a caller may pass
MatrixOf(n, abc) ==
    [i \in 1..n |-> [k \in 1..n |-> Fin(abc[1] * (IF i = k THEN 1 ELSE 0) + abc[2] * i + abc[3] * k)]]

HatMatrices(n) == {MatrixOf(n, abc) : abc \in {0, 1} \X {0} \X {0, 1}}
ResidualMatrices(n) == {MatrixOf(n, abc) : abc \in {-1, 0, 1} \X {-1, 0, 1} \X {-1, 0, 1}}

\* normalised signal values (0 < data <= 1 is the documented input), and 0
NormedValues == {Fin(0), Rat(1, 2), Fin(1)}

CallBootstrap(fn) ==
    /\ Idle
    /\ UNCHANGED objects
    /\ \E n \in 1..MaxDwi :
        \E data \in [1..n -> NormedValues], H \in HatMatrices(n), R \in ResidualMatrices(n),
           given \in BOOLEAN, permute \in PermuteChoices(n) :
            /\ call' = [op |-> fn, data |-> data, H |-> H, R |-> R,
                        permute |-> IF given THEN permute ELSE <<>>,
                        permute_given |-> given]
            /\ ret' = [raised |-> None,
                       drawn |-> permute,
                       data |-> IF fn = "bootstrap_data_array"
                                THEN bootstrap_data_array(data, H, R, permute)
                                ELSE bootstrap_data_voxel(data, H, R, permute)]

BootstrapDataArray == CallBootstrap("bootstrap_data_array")
BootstrapDataVoxel == CallBootstrap("bootstrap_data_voxel")

(***************************************************************************)
(* normalize_data (shm.py:458-471)                                         *)
(***************************************************************************)
MaxAcq == 3              \* number of acquisitions (b0 and DWI channels) of a signal
MaxSignal == 3           \* raw signal values are 0..MaxSignal
MaxFloor == 2            \* min_signal is one of 0..MaxFloor

RawValues == {Fin(x) : x \in 0..MaxSignal}
Floors == {Fin(x) : x \in 0..MaxFloor}

RECURSIVE Ascending(_, _)
\* the positions lo..(n-1) at which mask (0-based position p is mask[p+1]) is TRUE
Ascending(mask, lo) ==
    IF lo >= Len(mask) THEN <<>>
    ELSE (IF mask[lo + 1] THEN <<lo>> ELSE <<>>) \o Ascending(mask, lo + 1)

\* the positions a boolean mask selects, in increasing order: what indexing
\* with lazy_index(mask) selects (shm.py:261-262)
Where(mask) == Ascending(mask, 0)

Not(mask) == [i \in 1..Len(mask) |-> ~mask[i]]

\* out[..., where_b0].mean(-1) of one signal vector; the mean of nothing is NaN
MeanAt(vec, where_b0) == FDiv(FSum(Take(vec, where_b0)), Fin(Len(where_b0)))

\* normalisation taking the b0 mean before the clip
normalize_vector_mean_first(vec, where_b0, min_signal) ==
    LET clipped == [i \in 1..Len(vec) |-> ClipMin(vec[i], min_signal)]
        b0 == MeanAt(vec, where_b0)
    IN  [i \in 1..Len(vec) |-> FDiv(clipped[i], b0)]

\* the values normalize_data leaves in out, for one signal vector (468-470)
normalize_vector(vec, where_b0, min_signal) ==
    LET clipped == [i \in 1..Len(vec) |-> ClipMin(vec[i], min_signal)]
        b0 == MeanAt(clipped, where_b0)
    IN  [i \in 1..Len(vec) |-> FDiv(clipped[i], b0)]

\* the buffer the function writes into (461-466): a fresh copy of data when
\* out is None, else the caller's out
normalize_target(out) == IF out = None THEN "copy" ELSE "out"

\* the kinds of out a caller may pass: None, a float array, an integer array
OutKinds == {None, "f", "i"}

NormalizeData ==
    /\ Idle
    /\ UNCHANGED objects
    /\ \E n \in 1..MaxAcq :
        \E data \in [1..n -> RawValues], b0s_mask \in [1..n -> BOOLEAN],
           min_signal \in Floors, out \in OutKinds :
            /\ call' = [op |-> "normalize_data", data |-> data, where_b0 |-> Where(b0s_mask),
                        min_signal |-> min_signal, out |-> out]
            /\ IF out = "i"
               THEN ret' = [raised |-> "ValueError", data |-> data]
               ELSE ret' = [raised |-> None,
                            out |-> normalize_vector(data, Where(b0s_mask), min_signal),
                            data |-> IF normalize_target(out) = "data"
                                     THEN normalize_vector(data, Where(b0s_mask), min_signal)
                                     ELSE data]

(***************************************************************************)
(* Specification of the module-level functions.                            *)
(***************************************************************************)
\* no model has been constructed
NoModel ==
    /\ model = [built |-> FALSE]
    /\ cache = <<>>
    /\ fits = <<>>
    /\ builds = <<>>

NoCall ==
    /\ call = [op |-> None]
    /\ ret = [raised |-> None]

Init ==
    /\ NoCall
    /\ signal_object = <<>>
    /\ wrapper = [built |-> FALSE]
    /\ NoModel

Next ==
    \/ SphHarmIndList
    \/ RealSphHarm
    \/ RealSphHarmMrtrix
    \/ RealSphHarmFibernav
    \/ BootstrapDataArray
    \/ BootstrapDataVoxel
    \/ NormalizeData
    \/ Return

Spec == Init /\ [][Next]_vars

(***************************************************************************)
(* ResidualBootstrapWrapper (shm.py:537-580)                               *)
(***************************************************************************)
MaxVox == 2              \* number of voxels of a signal source or data array

\* arr with the 0-based positions index[i] set to vals[i] (arr[index] = vals)
Put(arr, index, vals) ==
    [p \in 1..Len(arr) |->
        IF \E i \in 1..Len(index) : index[i] + 1 = p
        THEN vals[CHOOSE i \in 1..Len(index) :
                     index[i] + 1 = p /\ \A l \in 1..Len(index) : index[l] + 1 = p => l <= i]
        ELSE arr[p]]

\* __getitem__ without the .copy(): it writes into the source's own vector
getitem_buffer_source == "source"

\* the buffer __getitem__ bootstraps and writes into (575): a copy of the
\* source's vector
getitem_buffer == "copy"

\* ResidualBootstrapWrapper.__getitem__ for one permutation draw (575-580)
wrapper_getitem(source, w, permute, build) ==
    LET signal == source
        dwi_signal == Take(signal, w._where_dwi)
        boot_signal == bootstrap_data_voxel(dwi_signal, w._H, w._R, permute)
        clipped == [j \in 1..Len(boot_signal) |-> Clip(boot_signal[j], w._min_signal, Fin(1), build)]
    IN  Put(signal, w._where_dwi, clipped)

\* signal sources of MaxVox voxels with n channels each: the values below,
\* rotated by voxel and channel, so that every value (a NaN included) occurs
\* at every channel and the voxels differ
SourceValues == <<Fin(0), Rat(1, 2), Fin(1), Fin(2), NaN>>
SourceVector(n, s) == [i \in 1..n |-> SourceValues[((i + s) % Len(SourceValues)) + 1]]
SignalSources(n) ==
    {[v \in 1..MaxVox |-> SourceVector(n, s + 2 * v)] : s \in 1..Len(SourceValues)}

\* min_signal values: below, at (the default) and above the upper clip bound 1.
WrapperFloors == {Fin(0), Rat(1, 2), Fin(1), Fin(2)}

\* hat(B) and lcr_matrix(H) (568-569) are an SVD and a division by square
\* roots: the pair built is one of a family of square matrices
WrapperMatrices(n) ==
    {<<MatrixOf(n, <<a, 0, 0>>), MatrixOf(n, <<1 - a, b, 1>>)>> : a \in {0, 1}, b \in {-1, 0, 1}}

\* ResidualBootstrapWrapper.__init__ (545-571) over a source of MaxVox voxels
WrapperInit ==
    /\ NoCall
    /\ \E b0s_mask \in [1..MaxAcq -> BOOLEAN] :
        /\ Where(Not(b0s_mask)) # <<>>
        /\ \E HR \in WrapperMatrices(Len(Where(Not(b0s_mask)))), min_signal \in WrapperFloors :
               wrapper = [built |-> TRUE, _H |-> HR[1], _R |-> HR[2],
                          _min_signal |-> min_signal, _where_dwi |-> Where(Not(b0s_mask))]
    /\ signal_object \in SignalSources(MaxAcq)
    /\ NoModel

WrapperGetItem ==
    /\ Idle
    /\ \E index \in 0..(MaxVox - 1) :
        \E permute \in PermuteChoices(Len(wrapper._where_dwi)),
           build \in (IF FLess(Fin(1), wrapper._min_signal) THEN ClipBuilds ELSE {"minmax"}) :
            /\ call' = [op |-> "ResidualBootstrapWrapper.__getitem__", index |-> index]
            /\ ret' = [raised |-> None, permute |-> permute,
                       signal |-> wrapper_getitem(signal_object[index + 1], wrapper, permute, build)]
            /\ signal_object' =
                   IF getitem_buffer = "copy" THEN signal_object
                   ELSE [signal_object EXCEPT ![index + 1] = ret'.signal]
            /\ UNCHANGED <<wrapper, modelobjects>>

WrapperNext ==
    \/ WrapperGetItem
    \/ Return

SpecWrapper == WrapperInit /\ [][WrapperNext]_vars

(***************************************************************************)
(* SphHarmModel and its three subclasses (shm.py:272-455)                  *)
(***************************************************************************)
\* np.log is a library call.  The stand-in is exact where the callers' results
\* turn non-finite (NaN and negatives give NaN, 0 gives -inf, +inf gives +inf)
\* and at log(1) = 0; elsewhere it is the increasing function x - 1.
FLog(x) ==
    IF IsNaN(x) \/ FLess(x, Fin(0)) THEN NaN
    ELSE IF x = Fin(0) THEN NInf
    ELSE IF x = PInf THEN PInf
    ELSE FSub(x, Fin(1))

\* lpn(sh_order, 0)[0][n]: the Legendre polynomial of even degree n at 0
\* (scipy), P_0(0) = 1 and P_n(0) = -P_(n-2)(0) * (n-1)/n
RECURSIVE legendre0(_)
legendre0(n) == IF n = 0 THEN Fin(1) ELSE FMul(legendre0(n - 2), Rat(-(n - 1), n))

\* CsaOdfModel.min and CsaOdfModel.max (390-391)
CsaMin == Rat(1, 1000)
CsaMax == Rat(999, 1000)

\* smooth_pinv(B, sqrt(smooth)*L) (224-250) is a pseudo-inverse computed by
\* the library: its result, of shape columns(B) x rows(B), is one of a family
PinvResults(ncols, nrows) ==
    {[i \in 1..ncols |-> [k \in 1..nrows |-> Fin(a + i * k)]] : a \in {-1, 0}}

\* _set_fit_matrix of the three subclasses (392-398, 419-425, 448-451)
set_fit_matrix(kind, n, invB) ==
    LET L == [i \in 1..Len(n) |-> Fin(-n[i] * (n[i] + 1))]
        F == [i \in 1..Len(n) |-> legendre0(n[i])]
        FLinvB == [i \in 1..Len(n) |-> [k \in 1..Len(invB[i]) |-> FMul(FMul(F[i], L[i]), invB[i][k])]]
        FinvB == [i \in 1..Len(n) |-> [k \in 1..Len(invB[i]) |-> FMul(F[i], invB[i][k])]]
        FourFinvB == [i \in 1..Len(n) |-> [k \in 1..Len(invB[i]) |-> FMul(FMul(Fin(4), F[i]), invB[i][k])]]
    IN  CASE kind = "CsaOdfModel" -> FLinvB
          [] kind = "OpdtModel" -> <<FLinvB, FourFinvB>>
          [] kind = "QballModel" -> FinvB

\* _slowadc_formula (433-436) for one voxel
slowadc_formula(data, delta_b, delta_q) ==
    LET logd == [k \in 1..Len(data) |-> FNeg(FLog(data[k]))]
        lhs == [k \in 1..Len(data) |-> FMul(FMul(logd[k], FSub(Rat(3, 2), logd[k])), data[k])]
        a == DotT(lhs, delta_q)
        b == DotT(data, delta_b)
    IN  [i \in 1..Len(a) |-> FSub(a[i], b[i])]

\* _get_shm_coef of the three subclasses (400-405, 427-430, 453-455), one voxel
get_shm_coef(mdl, data) ==
    LET dwi == Take(data, mdl._where_dwi)
    IN  CASE mdl.kind = "CsaOdfModel" ->
                DotT([k \in 1..Len(dwi) |->
                         FLog(FNeg(FLog(Clip(dwi[k], CsaMin, CsaMax, "minmax"))))],
                     mdl._fit_matrix)
          [] mdl.kind = "OpdtModel" ->
                slowadc_formula(dwi, mdl._fit_matrix[1], mdl._fit_matrix[2])
          [] mdl.kind = "QballModel" ->
                DotT(dwi, mdl._fit_matrix)

\* coef *= mask[..., None] (324): every coefficient times the voxel's 1 or 0
apply_mask(coef, mask) ==
    [v \in 1..Len(coef) |->
        [i \in 1..Len(coef[v]) |-> FMul(coef[v][i], IF mask[v] THEN Fin(1) ELSE Fin(0))]]

\* no mask given: mask=None
NoMask == <<>>

\* an ndarray held by a fit: its shape and its nested values
NdArray(shape, v) == [shape |-> shape, v |-> v]

\* SphHarmFit(model, shm_coef, mask) (331-334); mask is None or an ndarray
SphHarmFit(mdl, shm_coef, mask) == [model |-> mdl, _shm_coef |-> shm_coef, mask |-> mask]
NoneMask == [given |-> FALSE]
MaskArray(shape, v) == [given |-> TRUE, shape |-> shape, v |-> v]

\* SphHarmModel.fit (312-325): the coefficient array of the returned fit
fit_coef(mdl, data, mask) ==
    LET normed == [v \in 1..Len(data) |->
                      IF mdl.assume_normed THEN data[v]
                      ELSE normalize_vector(data[v], mdl._where_b0s, mdl.min_signal)]
        coef == [v \in 1..Len(normed) |-> get_shm_coef(mdl, normed[v])]
    IN  IF mask = NoMask THEN coef ELSE apply_mask(coef, mask)

\* the (azimuth, polar) grid angles of the gradient of acquisition i, as
\* cart2sphere (297) returns them
GradientAngles(i) == <<i % (MaxAngle + 1), (2 * i) % (MaxAngle + 1)>>

ModelKinds == {"CsaOdfModel", "OpdtModel", "QballModel"}

\* SphHarmModel.__init__ (275-305) for a gradient table of MaxAcq acquisitions
\* with at least one DWI, and an even sh_order in 0..2
ModelInit ==
    \E kind \in ModelKinds, b0s_mask \in [1..MaxAcq -> BOOLEAN], sh_order \in {0, 2},
       min_signal \in {Fin(0), Fin(1)}, assume_normed \in BOOLEAN :
        /\ Where(Not(b0s_mask)) # <<>>
        /\ \E invB \in PinvResults(ncoef_of(sh_order), Len(Where(Not(b0s_mask)))) :
            model = [built |-> TRUE, kind |-> kind, sh_order |-> sh_order,
                     m |-> m_written(sh_order), n |-> n_list_of(sh_order),
                     _where_b0s |-> Where(b0s_mask), _where_dwi |-> Where(Not(b0s_mask)),
                     assume_normed |-> assume_normed, min_signal |-> min_signal,
                     B |-> BasisMatrix("real_sph_harm", m_written(sh_order), n_list_of(sh_order),
                                       [i \in 1..Len(Where(Not(b0s_mask))) |->
                                           GradientAngles(Where(Not(b0s_mask))[i])[1]],
                                       [i \in 1..Len(Where(Not(b0s_mask))) |->
                                           GradientAngles(Where(Not(b0s_mask))[i])[2]]),
                     _fit_matrix |-> set_fit_matrix(kind, n_list_of(sh_order), invB)]

\* data arrays of MaxVox voxels with n channels each: the values below rotated
\* by voxel and channel
DataValues == <<Fin(0), Fin(1), Fin(2), Fin(1), Rat(1, 2), Fin(3)>>
DataArrays(n) ==
    {[v \in 1..MaxVox |-> [i \in 1..n |-> DataValues[((i + s + 3 * v) % Len(DataValues)) + 1]]] :
        s \in 1..Len(DataValues)}

FitInit ==
    /\ NoCall
    /\ signal_object = <<>>
    /\ wrapper = [built |-> FALSE]
    /\ ModelInit
    /\ cache = <<>>
    /\ fits = <<>>
    /\ builds = <<>>

Fit ==
    /\ Idle
    /\ \E data \in DataArrays(MaxAcq), mask \in {NoMask} \cup [1..MaxVox -> BOOLEAN] :
        /\ call' = [op |-> "SphHarmModel.fit", data |-> data, mask |-> mask]
        /\ ret' = [raised |-> None,
                   fit |-> SphHarmFit("self",
                               NdArray(<<Len(data), Len(model.n)>>, fit_coef(model, data, mask)),
                               IF mask = NoMask THEN NoneMask
                               ELSE MaskArray(<<Len(mask)>>, mask))]
    /\ UNCHANGED objects

FitNext ==
    \/ Fit
    \/ Return

SpecFit == FitInit /\ [][FitNext]_vars

(***************************************************************************)
(* SphHarmFit: indexing and odf (shm.py:328-379)                           *)
(***************************************************************************)
MaxSpheres == 2          \* number of point sets; sphere s has s points

Spheres == 1..MaxSpheres

\* sphere.theta (polar) and sphere.phi (azimuth) of point set s, on the grid
sphere_theta(s) == [j \in 1..s |-> (s + j) % (MaxAngle + 1)]
sphere_phi(s) == [j \in 1..s |-> (s * j) % (MaxAngle + 1)]

\* Cache.cache_get(tag, key): the stored value, or None
cache_get(c, tag, key) ==
    IF <<tag, key>> \in DOMAIN c THEN [none |-> FALSE, value |-> c[<<tag, key>>]]
    ELSE [none |-> TRUE]

\* Cache.cache_set(tag, key, value)
cache_set(c, tag, key, value) ==
    [k \in DOMAIN c \cup {<<tag, key>>} |-> IF k = <<tag, key>> THEN value ELSE c[k]]

\* "if sampling_matrix is None" (373)
odf_miss_always(cached) == TRUE
odf_miss(cached) == cached.none

\* real_sph_harm(self.model.m, self.model.n, phi, theta) (374-377)
odf_sampling_matrix(mdl, sphere) ==
    BasisMatrix("real_sph_harm", mdl.m, mdl.n, sphere_phi(sphere), sphere_theta(sphere))

\* the key odf stores the sampling matrix under (378)
odf_key(sphere) == sphere

\* np.dot(vec, S.T) for a matrix of values a + b*sqrt(2): entry p is the pair
\* <<sum of vec[i]*a, sum of vec[i]*b>> over row p
DotBasisT(vec, S) ==
    [p \in 1..Len(S) |->
        <<FSum([i \in 1..Len(vec) |-> FMul(vec[i], Fin(S[p][i][1]))]),
          FSum([i \in 1..Len(vec) |-> FMul(vec[i], Fin(S[p][i][2]))])>>]

\* dot(self._shm_coef, sampling_matrix.T) (379) over the coefficient array
odf_values(coef, S) ==
    IF Len(coef.shape) = 1
    THEN NdArray(<<Len(S)>>, DotBasisT(coef.v, S))
    ELSE NdArray(<<coef.shape[1], Len(S)>>,
                 [v \in 1..coef.shape[1] |-> DotBasisT(coef.v[v], S)])

\* the indices tried on a fit with n voxels along its first axis: an integer,
\* a slice start:stop, or a one-element tuple of either
FitIndices(n) ==
    LET plain == {[kind |-> "int", i |-> i] : i \in 0..(n - 1)}
                 \cup {[kind |-> "slice", start |-> ab[1], stop |-> ab[2], step |-> 1] :
                          ab \in {x \in (0..n) \X (0..n) : x[1] <= x[2]}}
    IN  plain \cup {[kind |-> "tuple", items |-> <<x>>] : x \in plain}

\* slice.indices(n): a negative bound counts from the end, and both bounds
\* are clamped to the axis
slice_bound(n, b, step) ==
    IF step > 0
    THEN (IF b < 0 THEN (IF b + n < 0 THEN 0 ELSE b + n) ELSE (IF b > n THEN n ELSE b))
    ELSE (IF b < 0 THEN (IF b + n < -1 THEN -1 ELSE b + n) ELSE (IF b > n - 1 THEN n - 1 ELSE b))

\* the 0-based positions a slice selects on an axis of length n, in order
slice_positions(n, ix) ==
    LET s == slice_bound(n, ix.start, ix.step)
        e == slice_bound(n, ix.stop, ix.step)
        span == IF ix.step > 0 THEN e - s ELSE s - e
        size == IF span <= 0 THEN 0 ELSE (span + Abs(ix.step) - 1) \div Abs(ix.step)
    IN  [k \in 1..size |-> s + (k - 1) * ix.step]

\* the shape of arr[items] for an array of the given shape, one item per
\* leading axis and the remaining axes whole; IndexError for an integer out
\* of range or more items than axes
RECURSIVE index_shape(_, _)
index_shape(shape, items) ==
    IF items = <<>> THEN [err |-> FALSE, shape |-> shape]
    ELSE IF shape = <<>> THEN [err |-> TRUE]
    ELSE LET rest == index_shape(Tail(shape), Tail(items))
             ix == Head(items)
         IN  IF rest.err THEN rest
             ELSE IF ix.kind = "int"
             THEN (IF ix.i < -shape[1] \/ ix.i >= shape[1] THEN [err |-> TRUE] ELSE rest)
             ELSE [err |-> FALSE,
                   shape |-> <<Len(slice_positions(shape[1], ix))>> \o rest.shape]

\* the values of arr[items], for items index_shape accepts
RECURSIVE index_values(_, _, _)
index_values(shape, v, items) ==
    IF items = <<>> THEN v
    ELSE LET ix == Head(items)
         IN  IF ix.kind = "int"
             THEN index_values(Tail(shape),
                               v[(IF ix.i < 0 THEN ix.i + shape[1] ELSE ix.i) + 1], Tail(items))
             ELSE LET pos == slice_positions(shape[1], ix)
                  IN  [k \in 1..Len(pos) |->
                          index_values(Tail(shape), v[pos[k] + 1], Tail(items))]

\* arr[index] for an ndarray and an integer, a slice or a tuple of these
index_array(arr, index) ==
    LET items == IF index.kind = "tuple" THEN index.items ELSE <<index>>
        sh == index_shape(arr.shape, items)
    IN  IF sh.err THEN [raised |-> "IndexError"]
        ELSE [raised |-> None, shape |-> sh.shape,
              v |-> index_values(arr.shape, arr.v, items)]

\* SphHarmFit.shape (336-338)
fit_shape(fit) == SubSeq(fit._shm_coef.shape, 1, Len(fit._shm_coef.shape) - 1)

\* SphHarmFit.__getitem__ (340-356): the new fit, or the error raised by the
\* indexing or by the assertion
fit_getitem_mask_unsliced(fit, index) ==
    LET new_coef == index_array(fit._shm_coef, index)
    IN  IF new_coef.raised # None THEN [raised |-> new_coef.raised]
        ELSE IF ~fit.mask.given
        THEN [raised |-> None,
              fit |-> SphHarmFit(fit.model, NdArray(new_coef.shape, new_coef.v), NoneMask)]
        ELSE IF fit.mask.shape # SubSeq(new_coef.shape, 1, Len(new_coef.shape) - 1)
        THEN [raised |-> "AssertionError"]
        ELSE [raised |-> None,
              fit |-> SphHarmFit(fit.model, NdArray(new_coef.shape, new_coef.v), fit.mask)]
fit_getitem(fit, index) ==
    LET new_coef == index_array(fit._shm_coef, index)
        new_mask == index_array([shape |-> fit.mask.shape, v |-> fit.mask.v], index)
    IN  IF new_coef.raised # None THEN [raised |-> new_coef.raised]
        ELSE IF ~fit.mask.given
        THEN [raised |-> None,
              fit |-> SphHarmFit(fit.model, NdArray(new_coef.shape, new_coef.v), NoneMask)]
        ELSE IF new_mask.raised # None THEN [raised |-> new_mask.raised]
        ELSE IF new_mask.shape # SubSeq(new_coef.shape, 1, Len(new_coef.shape) - 1)
        THEN [raised |-> "AssertionError"]
        ELSE [raised |-> None,
              fit |-> SphHarmFit(fit.model, NdArray(new_coef.shape, new_coef.v),
                                 MaskArray(new_mask.shape, new_mask.v))]

OdfInit ==
    /\ NoCall
    /\ signal_object = <<>>
    /\ wrapper = [built |-> FALSE]
    /\ ModelInit
    /\ model.kind = "QballModel"
    /\ model._where_b0s = <<0>>
    /\ model.min_signal = Fin(1)
    /\ model.assume_normed
    /\ cache = <<>>
    /\ fits = <<>>
    /\ builds = [s \in Spheres |-> 0]

\* the caller keeps the fit a call returned, in place of the one it held
KeepFit ==
    /\ ~Idle
    /\ call.op \in {"SphHarmModel.fit", "SphHarmFit.__getitem__"}
    /\ ret.raised = None
    /\ fits' = <<ret.fit>>
    /\ call' = [op |-> None]
    /\ ret' = [raised |-> None]
    /\ UNCHANGED <<signal_object, wrapper, model, cache, builds>>

FitGetItem ==
    /\ Idle
    /\ \E f \in 1..Len(fits) :
        /\ Len(fits[f]._shm_coef.shape) = 2
        /\ \E index \in FitIndices(fits[f]._shm_coef.shape[1]) :
            /\ call' = [op |-> "SphHarmFit.__getitem__", self |-> f, index |-> index]
            /\ ret' = fit_getitem(fits[f], index)
    /\ UNCHANGED objects

Odf ==
    /\ Idle
    /\ \E f \in 1..Len(fits), sphere \in Spheres :
        LET cached == cache_get(cache, "sampling_matrix", odf_key(sphere))
            sampling_matrix == IF odf_miss(cached) THEN odf_sampling_matrix(model, sphere)
                               ELSE cached.value
        IN  /\ call' = [op |-> "SphHarmFit.odf", self |-> f, sphere |-> sphere]
            /\ cache' = IF odf_miss(cached)
                        THEN cache_set(cache, "sampling_matrix", odf_key(sphere), sampling_matrix)
                        ELSE cache
            /\ builds' = IF odf_miss(cached)
                         THEN [builds EXCEPT ![sphere] = IF @ < 2 THEN @ + 1 ELSE @]
                         ELSE builds
            /\ ret' = [raised |-> None, values |-> odf_values(fits[f]._shm_coef, sampling_matrix)]
    /\ UNCHANGED <<signal_object, wrapper, model, fits>>

OdfNext ==
    \/ Fit
    \/ FitGetItem
    \/ Odf
    \/ KeepFit
    \/ Return

SpecOdf == OdfInit /\ [][OdfNext]_vars

(***************************************************************************)
(* sf_to_sh and sh_to_sf (shm.py:583-672)                                  *)
(***************************************************************************)
MaxOrder == 2            \* largest sh_order passed to the transforms

\* the basis_type values tried: the three keys of sph_harm_lookup and names
\* that are not keys
BasisTypes == {None, "mrtrix", "fibernav", "", "Mrtrix", "default"}

\* sph_harm_lookup.get(basis_type) (182, 617, 662): the function, or None
sph_harm_lookup_get_default(basis_type) ==
    CASE basis_type = "mrtrix" -> "real_sph_harm_mrtrix"
      [] basis_type = "fibernav" -> "real_sph_harm_fibernav"
      [] OTHER -> "real_sph_harm"
sph_harm_lookup_get(basis_type) ==
    CASE basis_type = None -> "real_sph_harm"
      [] basis_type = "mrtrix" -> "real_sph_harm_mrtrix"
      [] basis_type = "fibernav" -> "real_sph_harm_fibernav"
      [] OTHER -> None

\* the steps both transforms share (612-620, 657-665): the index lists, the
\* lookup, the test of its result, and B; steps lists what has been computed
transform_basis(sphere, sh_order, basis_type) ==
    LET m == m_written(sh_order)
        n == n_list_of(sh_order)
        pol == sphere_theta(sphere)
        azi == sphere_phi(sphere)
        sph_harm_basis == sph_harm_lookup_get(basis_type)
    IN  IF IndListRaises(sh_order)
        THEN [raised |-> "ValueError", steps |-> <<>>]
        ELSE IF sph_harm_basis = None
        THEN [raised |-> "ValueError", steps |-> <<"sph_harm_ind_list", "sph_harm_lookup.get">>]
        ELSE [raised |-> None, steps |-> <<"sph_harm_ind_list", "sph_harm_lookup.get", "B">>,
              B |-> BasisMatrix(sph_harm_basis, m, n, azi, pol)]

\* sf_to_sh (612-629) for one function sf on the sphere and the
\* pseudo-inverse invB the library returns
sf_to_sh(sf, sphere, sh_order, basis_type, invB) ==
    LET b == transform_basis(sphere, sh_order, basis_type)
    IN  IF b.raised # None THEN b
        ELSE [raised |-> None, steps |-> b.steps \o <<"smooth_pinv", "dot">>, B |-> b.B,
              value |-> DotT(sf, invB)]

\* sh_to_sf (657-672) for one coefficient vector sh
sh_to_sf(sh, sphere, sh_order, basis_type) ==
    LET b == transform_basis(sphere, sh_order, basis_type)
    IN  IF b.raised # None THEN b
        ELSE [raised |-> None, steps |-> b.steps \o <<"dot">>, B |-> b.B,
              value |-> DotBasisT(sh, b.B)]

\* vectors of length n: the data values rotated
TransformVectors(n) ==
    {[i \in 1..n |-> DataValues[((i + s) % Len(DataValues)) + 1]] : s \in 1..3}

TransformInit ==
    /\ NoCall
    /\ signal_object = <<>>
    /\ wrapper = [built |-> FALSE]
    /\ NoModel

SfToSh ==
    /\ Idle
    /\ \E sphere \in Spheres, sh_order \in 0..MaxOrder, basis_type \in BasisTypes,
          smooth \in {0, 1} :
        \E sf \in TransformVectors(Len(sphere_theta(sphere))),
           invB \in PinvResults(ncoef_of(sh_order), Len(sphere_theta(sphere))) :
            /\ call' = [op |-> "sf_to_sh", sf |-> sf, sphere |-> sphere, sh_order |-> sh_order,
                        basis_type |-> basis_type, smooth |-> smooth]
            /\ ret' = sf_to_sh(sf, sphere, sh_order, basis_type, invB)
    /\ UNCHANGED objects

ShToSf ==
    /\ Idle
    /\ \E sphere \in Spheres, sh_order \in 0..MaxOrder, basis_type \in BasisTypes :
        \E sh \in TransformVectors(ncoef_of(sh_order)) :
            /\ call' = [op |-> "sh_to_sf", sh |-> sh, sphere |-> sphere, sh_order |-> sh_order,
                        basis_type |-> basis_type]
            /\ ret' = sh_to_sf(sh, sphere, sh_order, basis_type)
    /\ UNCHANGED objects

TransformNext ==
    \/ SfToSh
    \/ ShToSf
    \/ Return

SpecTransform == TransformInit /\ [][TransformNext]_vars

(***************************************************************************)
(* SphHarmFit.__getitem__ on fits of any spatial shape (shm.py:331-356)    *)
(***************************************************************************)
MaxExtent == 2           \* largest length of a spatial axis

\* spatial shapes of zero, one and two axes
SpatialShapes ==
    {<<>>} \cup {<<a>> : a \in 1..MaxExtent}
           \cup {<<ab[1], ab[2]>> : ab \in (1..MaxExtent) \X (1..MaxExtent)}

\* a coefficient array of the given shape whose entries all differ: the
\* entry at position (i, j, ...) holds the number with digits i, j, ...
RECURSIVE coef_array(_, _)
coef_array(shape, code) ==
    IF shape = <<>> THEN Fin(code)
    ELSE [i \in 1..shape[1] |-> coef_array(Tail(shape), 10 * code + i)]

\* a boolean array of the given shape; the starting code varies the pattern
RECURSIVE mask_array(_, _)
mask_array(shape, code) ==
    IF shape = <<>> THEN code % 3 # 0
    ELSE [i \in 1..shape[1] |-> mask_array(Tail(shape), 2 * code + i)]

\* the shapes of the mask a fit over a spatial shape may carry: that shape,
\* or one that broadcasts against it in fit (324) or was passed to the
\* constructor (331-334)
MaskShapes(spatial) ==
    {spatial} \cup (IF spatial = <<>> THEN {} ELSE {Tail(spatial), <<1>> \o Tail(spatial)})

\* the mask of a fit: None for seed 0, else a boolean array of the shape
fit_mask(shape, seed) ==
    IF seed = 0 THEN NoneMask ELSE MaskArray(shape, mask_array(shape, seed))

\* the items tried on an axis of length n: integers in and just out of range,
\* and slices with bounds from -1 to n and step 1 or -1
AxisItems(n) ==
    {[kind |-> "int", i |-> i] : i \in (-n - 1)..n}
    \cup {[kind |-> "slice", start |-> abc[1], stop |-> abc[2], step |-> abc[3]] :
            abc \in (-1..n) \X (-1..n) \X {1, -1}}

\* the indices tried on a fit whose coefficient array has the given shape:
\* an item, or a tuple of zero, one or two items
GetItemIndices(shape) ==
    LET ext(k) == IF Len(shape) < k THEN 1
                  ELSE IF shape[k] > MaxExtent THEN MaxExtent ELSE shape[k]
    IN  AxisItems(ext(1))
        \cup {[kind |-> "tuple", items |-> <<>>]}
        \cup {[kind |-> "tuple", items |-> <<x>>] : x \in AxisItems(ext(1))}
        \cup {[kind |-> "tuple", items |-> <<x, y>>] :
                x \in AxisItems(ext(1)), y \in AxisItems(ext(2))}

GetItemInit ==
    /\ NoCall
    /\ signal_object = <<>>
    /\ wrapper = [built |-> FALSE]
    /\ ModelInit
    /\ model.kind = "QballModel"
    /\ model._where_b0s = <<0>>
    /\ model.min_signal = Fin(1)
    /\ model.assume_normed
    /\ model.sh_order = 2
    /\ cache = <<>>
    /\ builds = [s \in Spheres |-> 0]
    /\ \E spatial \in SpatialShapes :
        \E shape \in MaskShapes(spatial), seed \in 0..2 :
            fits = <<SphHarmFit("self",
                                NdArray(spatial \o <<Len(model.n)>>,
                                        coef_array(spatial \o <<Len(model.n)>>, 0)),
                                fit_mask(shape, seed))>>

FitGetItemAny ==
    /\ Idle
    /\ \E f \in 1..Len(fits) :
        \E index \in GetItemIndices(fits[f]._shm_coef.shape) :
            /\ call' = [op |-> "SphHarmFit.__getitem__", self |-> f, index |-> index]
            /\ ret' = fit_getitem(fits[f], index)
    /\ UNCHANGED objects

GetItemNext ==
    \/ FitGetItemAny
    \/ Return

SpecGetItem == GetItemInit /\ [][GetItemNext]_vars

(***************************************************************************)
(* lazy_index (shm.py:253-269)                                             *)
(***************************************************************************)
MaxIndexLen == 3         \* longest index sequence or mask
MaxIndexValue == 4       \* largest position in an index sequence

\* an index argument: a list of booleans or a list of integers
BoolList(v) == [of |-> "mask", v |-> v]
IntList(v) == [of |-> "sequence", v |-> v]

\* np.array(index) of a list: its dtype kind and its values; an empty list
\* becomes an empty float array
np_array(index) ==
    [dtype |-> IF index.v = <<>> THEN "f" ELSE IF index.of = "mask" THEN "b" ELSE "i",
     v |-> index.v]

\* diff(index)
diff(v) == [k \in 1..(Len(v) - 1) |-> v[k + 1] - v[k]]

\* unique(...): the distinct values
unique(v) == {v[k] : k \in 1..Len(v)}

\* lazy_index(index): a slice, or the index array itself
lazy_index(index) ==
    LET arr == np_array(index)
        idx == IF arr.dtype = "b" THEN Ascending(arr.v, 0) ELSE arr.v
        step == unique(diff(idx))
    IN  IF Len(idx) = 1
        THEN [kind |-> "slice", start |-> idx[1], stop |-> idx[1] + 1, step |-> 1]
        ELSE IF Cardinality(step) # 1 \/ 0 \in step
        THEN [kind |-> "array", dtype |-> IF arr.dtype = "b" THEN "i" ELSE arr.dtype, v |-> idx]
        ELSE [kind |-> "slice", start |-> idx[1], stop |-> idx[Len(idx)] + 1,
              step |-> CHOOSE d \in step : TRUE]

\* the index arguments: boolean masks and sequences of positions, of every
\* length up to MaxIndexLen
IndexMasks == UNION {[1..n -> BOOLEAN] : n \in 1..MaxIndexLen}
IndexSequences == UNION {[1..n -> 0..MaxIndexValue] : n \in 0..MaxIndexLen}

LazyIndexInit ==
    /\ NoCall
    /\ signal_object = <<>>
    /\ wrapper = [built |-> FALSE]
    /\ NoModel

LazyIndexOfMask ==
    /\ Idle
    /\ \E index \in IndexMasks :
        /\ call' = [op |-> "lazy_index", index |-> BoolList(index)]
        /\ ret' = [raised |-> None, value |-> lazy_index(BoolList(index))]
    /\ UNCHANGED objects

LazyIndexOfSequence ==
    /\ Idle
    /\ \E index \in IndexSequences :
        /\ call' = [op |-> "lazy_index", index |-> IntList(index)]
        /\ ret' = [raised |-> None, value |-> lazy_index(IntList(index))]
    /\ UNCHANGED objects

LazyIndexNext ==
    \/ LazyIndexOfMask
    \/ LazyIndexOfSequence
    \/ Return

SpecLazyIndex == LazyIndexInit /\ [][LazyIndexNext]_vars

(***************************************************************************)
(* C1: for every even sh_order L >= 0, sph_harm_ind_list(L) returns two    *)
(* parallel lists of length (L+1)(L+2)/2; every degree is even and within  *)
(* 0..L, every order satisfies |m| <= n, every such pair appears exactly   *)
(* once, and the pairs are ordered by increasing degree and, within a      *)
(* degree, by increasing order.                                            *)
(***************************************************************************)
IndListCalled == call.op = "sph_harm_ind_list"

C1_Pairs(L) == {mn \in (-L..L) \X (0..L) : mn[2] % 2 = 0 /\ Abs(mn[1]) <= mn[2]}

C1_IndexEnumeration ==
    (IndListCalled /\ call.sh_order >= 0 /\ call.sh_order % 2 = 0) =>
        LET L == call.sh_order
            ml == ret.m_list
            nl == ret.n_list
            size == ((L + 1) * (L + 2)) \div 2
        IN  /\ ret.raised = None
            /\ Len(ml) = size
            /\ Len(nl) = size
            /\ \A i \in 1..size :
                   /\ nl[i] % 2 = 0 /\ 0 <= nl[i] /\ nl[i] <= L
                   /\ Abs(ml[i]) <= nl[i]
            /\ \A mn \in C1_Pairs(L) :
                   Cardinality({i \in 1..size : ml[i] = mn[1] /\ nl[i] = mn[2]}) = 1
            /\ \A i \in 1..(size - 1) :
                   \/ nl[i] < nl[i + 1]
                   \/ nl[i] = nl[i + 1] /\ ml[i] < ml[i + 1]

C1_Witness ==
    /\ IndListCalled
    /\ call.sh_order = 4
    /\ ret.raised = None
    /\ Len(ret.m_list) = 15

(***************************************************************************)
(* C2: sph_harm_ind_list(sh_order) raises ValueError for every sh_order    *)
(* that is odd or negative, negative even values included, and returns no  *)
(* index lists then.                                                       *)
(***************************************************************************)
C2_RaisesOnOddOrNegative ==
    (IndListCalled /\ (call.sh_order % 2 # 0 \/ call.sh_order < 0)) =>
        ret.raised = "ValueError"

(***************************************************************************)
(* C3: in the mrtrix convention the value for m < 0 is                     *)
(* (-1)^(m+1) * Im(Y), for m > 0 it is Re(Y) and for m = 0 it is Y.        *)
(***************************************************************************)
C3_MrtrixSign ==
    call.op = "real_sph_harm_mrtrix" =>
        \A k \in 1..Len(call.m) :
            LET m == call.m[k]
                Y == sph_harm(m, call.n[k], call.theta[1], call.phi[1])
            IN  ret.real_sh[1][k] =
                    IF m < 0 THEN <<SignPow(m + 1) * Im(Y), 0>> ELSE <<Re(Y), 0>>

(***************************************************************************)
(* C4: for an explicit permutation p (N indices in 0..N-1, repeats         *)
(* allowed), bootstrap_data_array and bootstrap_data_voxel return the same *)
(* vector, whose j-th entry is the sum over k of                           *)
(* data[k] * (H[j][k] + R[p[j]][k]).                                       *)
(***************************************************************************)
C4_Entry(data, H, R, p, j) ==
    FSum([k \in 1..Len(data) |-> FMul(data[k], FAdd(H[j][k], R[p[j] + 1][k]))])

C4_BootstrapPathsAgree ==
    (call.op \in {"bootstrap_data_array", "bootstrap_data_voxel"} /\ call.permute_given) =>
        /\ Len(ret.data) = Len(call.data)
        /\ \A j \in 1..Len(call.data) :
               ret.data[j] = C4_Entry(call.data, call.H, call.R, call.permute, j)

C4_Witness ==
    /\ call.op = "bootstrap_data_voxel"
    /\ call.permute_given
    /\ call.permute = <<1, 1>>
    /\ \E j \in 1..2 : call.R[1][j] # call.R[2][j]
    /\ ret.data[1] # Fin(0)
    /\ ret.data[1] # ret.data[2]

(***************************************************************************)
(* C7 as claimed: when every b0 channel has the value c, normalize_data    *)
(* with floor f returns clip(signal, f, infinity) / c for every channel,   *)
(* and with out = None the caller's array is not modified.                 *)
(***************************************************************************)
C7_ConstantB0(c) ==
    /\ call.op = "normalize_data"
    /\ ret.raised = None
    /\ call.where_b0 # <<>>
    /\ \A i \in 1..Len(call.where_b0) : call.data[call.where_b0[i] + 1] = c

C7_NormalizedByB0 ==
    \A c \in RawValues :
        C7_ConstantB0(c) =>
            /\ \A i \in 1..Len(call.data) :
                   ret.out[i] = FDiv(ClipMin(call.data[i], call.min_signal), c)
            /\ call.out = None => ret.data = call.data

(***************************************************************************)
(* C7 amended: the b0 mean is taken after the clip, so the divisor is      *)
(* max(c, f): normalize_data returns clip(signal, f, infinity) / max(c, f) *)
(* for every channel (which is clip(signal, f, infinity) / c whenever      *)
(* c >= f), and with out = None the caller's array is not modified.        *)
(***************************************************************************)
C7_NormalizedByClippedB0 ==
    \A c \in RawValues :
        C7_ConstantB0(c) =>
            /\ Len(ret.out) = Len(call.data)
            /\ \A i \in 1..Len(call.data) :
                   ret.out[i] = FDiv(ClipMin(call.data[i], call.min_signal),
                                     IF FLess(c, call.min_signal) THEN call.min_signal ELSE c)
            /\ call.out = None => ret.data = call.data

C7_Witness ==
    /\ C7_ConstantB0(Fin(1))
    /\ call.min_signal = Fin(2)
    /\ call.out = None
    /\ Len(call.where_b0) = 2
    /\ \E i \in 1..Len(call.data) : ret.out[i] = Rat(3, 2)

(***************************************************************************)
(* C5: ResidualBootstrapWrapper.__getitem__ returns a vector as long as    *)
(* the source signal whose entries at the non-DWI (b0) positions equal the *)
(* source's, and no indexing call changes the source's vectors or the      *)
(* wrapper's H, R, DWI selector and min_signal.                            *)
(***************************************************************************)
GetItemCalled == call.op = "ResidualBootstrapWrapper.__getitem__"

IsDwi(p) == \E i \in 1..Len(wrapper._where_dwi) : wrapper._where_dwi[i] + 1 = p

C5_B0PassThrough ==
    GetItemCalled =>
        /\ Len(ret.signal) = Len(signal_object[call.index + 1])
        /\ \A p \in 1..Len(ret.signal) :
               ~IsDwi(p) => ret.signal[p] = signal_object[call.index + 1][p]

C5_Unchanged == signal_object' = signal_object /\ wrapper' = wrapper

C5_WrapperFrame == []C5_B0PassThrough /\ [][C5_Unchanged]_vars

C5_Witness ==
    /\ GetItemCalled
    /\ \E p \in 1..Len(ret.signal) : ~IsDwi(p)
    /\ \E p \in 1..Len(ret.signal) :
           IsDwi(p) /\ ret.signal[p] # signal_object[call.index + 1][p]
    /\ signal_object[1] # signal_object[2]

(***************************************************************************)
(* C6 as claimed: whatever min_signal the wrapper was built with, whatever *)
(* the source signal and whatever permutation is drawn, every DWI entry of *)
(* the returned vector lies in [min_signal, 1].                            *)
(***************************************************************************)
C6_InRange(x) == FLeq(wrapper._min_signal, x) /\ FLeq(x, Fin(1))

C6_ClippedAlways ==
    GetItemCalled => \A p \in 1..Len(ret.signal) : IsDwi(p) => C6_InRange(ret.signal[p])

(***************************************************************************)
(* C6 amended: for a wrapper built with min_signal <= 1 (the default 1.0   *)
(* included) and finite H and R, every DWI entry of the vector returned by *)
(* indexing a source signal without NaN or infinite values lies in         *)
(* [min_signal, 1], whatever permutation is drawn.                         *)
(***************************************************************************)
C6_FiniteInputs ==
    /\ \A p \in 1..Len(signal_object[call.index + 1]) : IsFinite(signal_object[call.index + 1][p])
    /\ \A i \in 1..Len(wrapper._H) : \A k \in 1..Len(wrapper._H) :
           IsFinite(wrapper._H[i][k]) /\ IsFinite(wrapper._R[i][k])

C6_ClippedWhenFloorAtMostOne ==
    (GetItemCalled /\ FLeq(wrapper._min_signal, Fin(1)) /\ C6_FiniteInputs) =>
        \A p \in 1..Len(ret.signal) : IsDwi(p) => C6_InRange(ret.signal[p])

C6_Witness ==
    /\ GetItemCalled
    /\ wrapper._min_signal = Rat(1, 2)
    /\ C6_FiniteInputs
    /\ \E p \in 1..Len(ret.signal) : IsDwi(p) /\ ret.signal[p] = Fin(1)
    /\ \E p \in 1..Len(ret.signal) : IsDwi(p) /\ ret.signal[p] = Rat(1, 2)
    /\ \E p \in 1..Len(ret.signal) :
           IsDwi(p) /\ ret.signal[p] # signal_object[call.index + 1][p]

(***************************************************************************)
(* C8: fit(data, mask) returns a fit whose coefficient vector is all-zero  *)
(* at every voxel where mask is False and equals the coefficient vector of *)
(* fit(data, mask=None) at every voxel where mask is True, also when the   *)
(* unmasked coefficients at a masked-out voxel are non-finite.             *)
(***************************************************************************)
C8_MaskZeroesCoefficients ==
    (call.op = "SphHarmModel.fit" /\ call.mask # NoMask) =>
        \A v \in 1..Len(call.data) :
            LET coef == ret.fit._shm_coef.v[v]
                unmasked == fit_coef(model, call.data, NoMask)[v]
            IN  IF call.mask[v]
                THEN coef = unmasked
                ELSE \A i \in 1..Len(coef) : coef[i] = Fin(0)

\* the same with the non-finite case left out: masked-out voxels whose
\* unmasked coefficients are all finite are zeroed
C8_MaskZeroesFiniteCoefficients ==
    (call.op = "SphHarmModel.fit" /\ call.mask # NoMask) =>
        \A v \in 1..Len(call.data) :
            LET coef == ret.fit._shm_coef.v[v]
                unmasked == fit_coef(model, call.data, NoMask)[v]
            IN  IF call.mask[v]
                THEN coef = unmasked
                ELSE (\A i \in 1..Len(coef) : IsFinite(unmasked[i])) =>
                         \A i \in 1..Len(coef) : coef[i] = Fin(0)

(***************************************************************************)
(* C9: over any sequence of odf calls on fits and slices of fits sharing   *)
(* one model, the sampling matrix of a point set is evaluated at most      *)
(* once, on the first call that misses the cache, and stored under that    *)
(* point set's key; later calls neither recompute nor overwrite it; and    *)
(* every call returns coefficients . S^T for the default-convention basis  *)
(* matrix S of the point set passed to that call.                          *)
(***************************************************************************)
C9_BasisOf(sphere) ==
    [p \in 1..Len(sphere_theta(sphere)) |->
        [k \in 1..Len(model.m) |->
            real_sph_harm_at(model.m[k], model.n[k], sphere_phi(sphere)[p], sphere_theta(sphere)[p])]]

C9_BuiltAtMostOnce ==
    \A s \in Spheres :
        /\ builds[s] <= 1
        /\ builds[s] = 1 <=> <<"sampling_matrix", s>> \in DOMAIN cache
        /\ <<"sampling_matrix", s>> \in DOMAIN cache =>
               cache[<<"sampling_matrix", s>>] = C9_BasisOf(s)

C9_ReturnsOwnSphere ==
    call.op = "SphHarmFit.odf" =>
        ret.values = odf_values(fits[call.self]._shm_coef, C9_BasisOf(call.sphere))

C9_EntriesKept ==
    \A k \in DOMAIN cache : k \in DOMAIN cache' /\ cache'[k] = cache[k]

C9_SamplingMatrixCache ==
    /\ [](C9_BuiltAtMostOnce /\ C9_ReturnsOwnSphere)
    /\ [][C9_EntriesKept]_vars

C9_Witness ==
    /\ call.op = "SphHarmFit.odf"
    /\ call.sphere = 2
    /\ fits[call.self]._shm_coef.shape = <<1, Len(model.n)>>
    /\ fits[call.self].mask.given
    /\ DOMAIN cache = {<<"sampling_matrix", 1>>, <<"sampling_matrix", 2>>}
    /\ model.sh_order = 2
    /\ ret.values.shape = <<1, 2>>
    /\ \E p \in 1..2 : ret.values.v[1][p] # <<Fin(0), Fin(0)>>

(***************************************************************************)
(* C10: sf_to_sh and sh_to_sf accept exactly the basis names None,         *)
(* "mrtrix" and "fibernav", each building B with its own convention's      *)
(* basis function; for any other name and an even sh_order >= 0 both raise *)
(* ValueError before a basis matrix or a pseudo-inverse is computed, and   *)
(* return no result.                                                       *)
(***************************************************************************)
TransformCalled == call.op \in {"sf_to_sh", "sh_to_sf"}

C10_EvenOrder == TransformCalled /\ call.sh_order >= 0 /\ call.sh_order % 2 = 0

C10_ConventionAt(basis_type, m, n, theta, phi) ==
    IF basis_type = None THEN real_sph_harm_at(m, n, theta, phi)
    ELSE IF basis_type = "mrtrix" THEN real_sph_harm_mrtrix_at(m, n, theta, phi)
    ELSE real_sph_harm_fibernav_at(m, n, theta, phi)

C10_OwnBasis ==
    [p \in 1..Len(sphere_theta(call.sphere)) |->
        [k \in 1..ncoef_of(call.sh_order) |->
            C10_ConventionAt(call.basis_type, m_written(call.sh_order)[k],
                             n_list_of(call.sh_order)[k],
                             sphere_phi(call.sphere)[p], sphere_theta(call.sphere)[p])]]

C10_Computed(step) == \E i \in 1..Len(ret.steps) : ret.steps[i] = step

C10_BasisNames ==
    C10_EvenOrder =>
        IF call.basis_type \in {None, "mrtrix", "fibernav"}
        THEN /\ ret.raised = None
             /\ ret.B = C10_OwnBasis
             /\ "value" \in DOMAIN ret
        ELSE /\ ret.raised = "ValueError"
             /\ ~C10_Computed("B")
             /\ ~C10_Computed("smooth_pinv")
             /\ DOMAIN ret = {"raised", "steps"}

C10_Witness ==
    /\ call.op = "sf_to_sh"
    /\ call.sh_order = 2
    /\ call.basis_type = "Mrtrix"
    /\ ret.raised = "ValueError"

(***************************************************************************)
(* C11: for every fit and every index (integer, slice, or tuple of these)  *)
(* valid for its spatial shape, fit[index] is a fit on the same model      *)
(* whose shape is the coefficient array's shape without the trailing       *)
(* coefficient axis, whose coefficients are the original ones at the       *)
(* indexed voxels with the coefficient axis intact, and whose mask (when   *)
(* the original has one) is the original mask at the same index, of the    *)
(* new fit's shape; when mask and coefficients would disagree in shape     *)
(* after the indexing, an error is raised and no fit is returned.          *)
(***************************************************************************)
C11_Fit == fits[call.self]

C11_Items == IF call.index.kind = "tuple" THEN call.index.items ELSE <<call.index>>

C11_ValidFor(shape) ==
    /\ Len(C11_Items) <= Len(shape)
    /\ \A k \in 1..Len(C11_Items) :
        C11_Items[k].kind = "int" => (C11_Items[k].i >= -shape[k] /\ C11_Items[k].i < shape[k])

\* the positions an item selects on an axis of length n, in the order selected
C11_Select(n, ix) ==
    IF ix.kind = "int" THEN <<IF ix.i < 0 THEN ix.i + n ELSE ix.i>>
    ELSE LET lo == IF ix.start < 0 THEN ix.start + n ELSE ix.start
             hi == IF ix.stop < 0 THEN ix.stop + n ELSE ix.stop
             S == {p \in 0..(n - 1) :
                     IF ix.step > 0 THEN p >= lo /\ p < hi /\ (p - lo) % ix.step = 0
                     ELSE p <= lo /\ p > hi /\ (lo - p) % (-ix.step) = 0}
         IN  [k \in 1..Cardinality(S) |->
                 CHOOSE p \in S :
                     Cardinality({q \in S : IF ix.step > 0 THEN q < p ELSE q > p}) = k - 1]

RECURSIVE C11_PickShape(_, _)
C11_PickShape(shape, items) ==
    IF items = <<>> THEN shape
    ELSE IF Head(items).kind = "int" THEN C11_PickShape(Tail(shape), Tail(items))
    ELSE <<Len(C11_Select(shape[1], Head(items)))>> \o C11_PickShape(Tail(shape), Tail(items))

RECURSIVE C11_Pick(_, _, _)
C11_Pick(shape, v, items) ==
    IF items = <<>> THEN v
    ELSE LET sel == C11_Select(shape[1], Head(items))
         IN  IF Head(items).kind = "int"
             THEN C11_Pick(Tail(shape), v[sel[1] + 1], Tail(items))
             ELSE [k \in 1..Len(sel) |-> C11_Pick(Tail(shape), v[sel[k] + 1], Tail(items))]

C11_NewShape ==
    LET sh == C11_PickShape(C11_Fit._shm_coef.shape, C11_Items)
    IN  SubSeq(sh, 1, Len(sh) - 1)

C11_MaskAgrees ==
    /\ C11_ValidFor(C11_Fit.mask.shape)
    /\ C11_PickShape(C11_Fit.mask.shape, C11_Items) = C11_NewShape

C11_IndexedFit ==
    (call.op = "SphHarmFit.__getitem__" /\ C11_ValidFor(fit_shape(C11_Fit))) =>
        IF C11_Fit.mask.given /\ ~C11_MaskAgrees
        THEN ret.raised # None /\ DOMAIN ret = {"raised"}
        ELSE /\ ret.raised = None
             /\ ret.fit.model = C11_Fit.model
             /\ fit_shape(ret.fit) = C11_NewShape
             /\ ret.fit._shm_coef.shape = C11_NewShape \o <<Len(model.n)>>
             /\ ret.fit._shm_coef.v =
                    C11_Pick(C11_Fit._shm_coef.shape, C11_Fit._shm_coef.v, C11_Items)
             /\ ret.fit.mask.given = C11_Fit.mask.given
             /\ C11_Fit.mask.given =>
                    /\ ret.fit.mask.shape = C11_NewShape
                    /\ ret.fit.mask.v = C11_Pick(C11_Fit.mask.shape, C11_Fit.mask.v, C11_Items)

C11_Witness ==
    /\ call.op = "SphHarmFit.__getitem__"
    /\ fit_shape(C11_Fit) = <<2, 2>>
    /\ C11_Fit.mask.given
    /\ C11_Fit.mask.shape = <<2, 2>>
    /\ call.index = [kind |-> "tuple",
                     items |-> <<[kind |-> "int", i |-> -1],
                                 [kind |-> "slice", start |-> 1, stop |-> 0, step |-> -1]>>]
    /\ ret.raised = None
    /\ fit_shape(ret.fit) = <<1>>
    /\ ret.fit._shm_coef.v[1][1] = Fin(221)
    /\ ret.fit.mask.v = <<C11_Fit.mask.v[2][2]>>

(***************************************************************************)
(* C12: for every 1-D boolean mask and every 1-D sequence of non-negative  *)
(* integers (empty, single, constant step up or down, repeated,            *)
(* irregular), indexing an array with lazy_index(index) selects the same   *)
(* elements in the same order as indexing with index itself; so the        *)
(* selectors lazy_index(mask) and lazy_index(~mask) pick disjoint position *)
(* sets that together cover every acquisition.                             *)
(***************************************************************************)
\* the positions arr[ix] selects in an array of length n, in order
C12_Selected(n, ix) == IF ix.kind = "slice" THEN slice_positions(n, ix) ELSE ix.v

\* the positions arr[index] selects for the index itself
C12_Direct(index) == IF index.of = "mask" THEN Ascending(index.v, 0) ELSE index.v

\* the lengths of the arrays index can index
C12_Lengths ==
    IF call.index.of = "mask" THEN {Len(call.index.v)}
    ELSE {n \in 1..(MaxIndexValue + 1) : \A k \in 1..Len(call.index.v) : call.index.v[k] < n}

C12_Partition(mask) ==
    LET b0 == unique(C12_Selected(Len(mask), lazy_index(BoolList(mask))))
        dwi == unique(C12_Selected(Len(mask), lazy_index(BoolList(Not(mask)))))
    IN  b0 \cap dwi = {} /\ b0 \cup dwi = 0..(Len(mask) - 1)

C12_SelectsSame ==
    /\ \A n \in C12_Lengths : C12_Selected(n, ret.value) = C12_Direct(call.index)
    /\ call.index.of = "mask" => C12_Partition(call.index.v)

C12_LazyIndexSelectsSame == call.op = "lazy_index" => C12_SelectsSame

\* the same with the sequences of constant step down left out
C12_Decreasing ==
    /\ call.index.of = "sequence"
    /\ Len(call.index.v) >= 2
    /\ \E d \in 1..MaxIndexValue : unique(diff(call.index.v)) = {-d}

C12_LazyIndexSelectsSameUnlessDecreasing ==
    (call.op = "lazy_index" /\ ~C12_Decreasing) => C12_SelectsSame

====
